---- MODULE Spec2Model ----
(***************************************************************************)
(* State-machine model of xsd_by_example.py: the import/include closure    *)
(* resolver (ImportResolver), the root-prefix pass, the reserved-prefix    *)
(* normalization and the part of main() that drives them.                  *)
(*                                                                         *)
(* Text (names, prefixes, namespace identifiers, attribute values) is      *)
(* modelled as sequences of one-character strings, so that the string      *)
(* operations of the code (":" in v, v.split(":", 1), rstrip, rsplit,      *)
(* lower, f"{base}{counter}") are computed, not assumed.  File paths are   *)
(* sequences of path components.  An absent attribute (Python None) is the *)
(* empty sequence; attribute values that are present are non-empty.        *)
(***************************************************************************)
EXTENDS Naturals, Sequences, FiniteSets, TLC

VARIABLES
    input,          \* which set of schema files is on disk (see fs below)
    pc,             \* position of main(): start, imports, resolved, prefixed,
                    \*   normalized, done, failed
    doc,            \* children of main_schema_el, in document order
    root_nsmap,     \* main_doc.getroot().nsmap, in declaration order
    root_target_ns, \* ImportResolver.root_target_ns
    root_prefix,    \* ImportResolver.root_prefix
    nOrig,          \* len(original_root_children)
    imported,       \* ImportResolver.imported
    ns_to_prefix,   \* ImportResolver.ns_to_prefix
    stack,          \* active handle_imports calls, innermost last
    warnings,       \* the WARNING diagnostics logged so far
    output,         \* TRUE once output_path.write_text has run
    parses,         \* number of lxml.etree.parse calls made by the resolver
    parsedPaths,    \* the paths given to those calls, in order
    mergedPaths,    \* the paths whose nodes were appended to doc, in order
    entered,        \* per file the resolver entered: its path, the parse that
                    \*   read it, its effective namespace and its add_prefix
    calls,          \* number of handle_imports invocations so far
    again,          \* handle_imports was called once more on the same resolver
    hier            \* the hierarchy and usage-graph builder: the document it
                    \*   works on, its usage index, its per-type cache and its
                    \*   active resolveInheritance calls

vars == <<input, pc, doc, root_nsmap, root_target_ns, root_prefix, nOrig, imported, ns_to_prefix, stack, warnings, output,
          parses, parsedPaths, mergedPaths, entered, calls, again, hier>>

\* the state of the resolver and of main()
resolverVars == <<input, pc, doc, root_nsmap, root_target_ns, root_prefix, nOrig,
                  imported, ns_to_prefix, stack, warnings, output, parses,
                  parsedPaths, mergedPaths, entered, calls, again>>

-----------------------------------------------------------------------------
(* Text *)

None == <<>>

Contains(s, c) == \E i \in DOMAIN s : s[i] = c

FirstIdx(s, c) == CHOOSE i \in DOMAIN s : s[i] = c /\ \A j \in 1..(i - 1) : s[j] # c

LastIdx(s, c) == CHOOSE i \in DOMAIN s : s[i] = c /\ \A j \in (i + 1)..Len(s) : s[j] # c

\* s.split(c, 1)[0]
SplitHead(s, c) == IF Contains(s, c) THEN SubSeq(s, 1, FirstIdx(s, c) - 1) ELSE s

\* s.split(c, 1)[1], for s that contains c
SplitTail(s, c) == SubSeq(s, FirstIdx(s, c) + 1, Len(s))

\* s.rsplit(c, 1)[-1]
RSplitLast(s, c) == IF Contains(s, c) THEN SubSeq(s, LastIdx(s, c) + 1, Len(s)) ELSE s

RECURSIVE RStrip(_, _)
RStrip(s, c) ==
    IF Len(s) > 0 /\ s[Len(s)] = c THEN RStrip(SubSeq(s, 1, Len(s) - 1), c) ELSE s

StartsWith(s, p) == Len(s) >= Len(p) /\ SubSeq(s, 1, Len(p)) = p

UpperChars == <<"A","B","C","D","E","F","G","H","I","J","K","L","M",
                "N","O","P","Q","R","S","T","U","V","W","X","Y","Z">>

LowerChars == <<"a","b","c","d","e","f","g","h","i","j","k","l","m",
                "n","o","p","q","r","s","t","u","v","w","x","y","z">>

LowerChar(c) ==
    IF \E i \in DOMAIN UpperChars : UpperChars[i] = c
    THEN LowerChars[CHOOSE i \in DOMAIN UpperChars : UpperChars[i] = c]
    ELSE c

\* s.lower()
Lower(s) == [i \in DOMAIN s |-> LowerChar(s[i])]

DigitChars == <<"0","1","2","3","4","5","6","7","8","9">>

\* str(n)
RECURSIVE Decimal(_)
Decimal(n) ==
    IF n < 10 THEN <<DigitChars[n + 1]>>
    ELSE Append(Decimal(n \div 10), DigitChars[(n % 10) + 1])

Colon == ":"

\* XSD = "http://www.w3.org/2001/XMLSchema"
XSD == <<"h","t","t","p",":","/","/","w","w","w",".","w","3",".","o","r","g",
         "/","2","0","0","1","/","X","M","L","S","c","h","e","m","a">>

XsdPrefix == <<"x","s","d">>

XsdColon == <<"x","s","d",":">>

-----------------------------------------------------------------------------
(* Documents.  A schema document is its top-level nodes; the attributes   *)
(* that the resolver reads on a node or on any of its descendants         *)
(* (//*[@type], //*[@base], //*[@ref], //*[@substitutionGroup]) are kept  *)
(* on the top-level node.  gen, src and idx identify the element object:  *)
(* which parse produced it, from which file, at which position.           *)

DefTags == {"element", "group", "attributeGroup", "complexType", "simpleType"}

DirectiveTags == {"include", "import"}

Node(tag, name, type, base, ref, sg) ==
    [tag |-> tag, name |-> name, type |-> type, base |-> base, ref |-> ref,
     substitutionGroup |-> sg, schemaLocation |-> None, namespace |-> None,
     gen |-> 0, src |-> None, idx |-> 0]

Directive(tag, loc, ns) ==
    [tag |-> tag, name |-> None, type |-> None, base |-> None, ref |-> None,
     substitutionGroup |-> None, schemaLocation |-> loc, namespace |-> ns,
     gen |-> 0, src |-> None, idx |-> 0]

\* xpath(doc, "xsd:include | xsd:import"), in document order
RECURSIVE xpath_directives(_)
xpath_directives(nodes) ==
    IF nodes = <<>> THEN <<>>
    ELSE IF Head(nodes).tag \in DirectiveTags
         THEN <<Head(nodes)>> \o xpath_directives(Tail(nodes))
         ELSE xpath_directives(Tail(nodes))

(* Paths *)

\* path.parent
Parent(path) == SubSeq(path, 1, Len(path) - 1)

\* (dir / loc).resolve(): ".." and "." are folded; there are no symlinks
RECURSIVE Resolve(_, _)
Resolve(dir, loc) ==
    IF loc = <<>> THEN dir
    ELSE IF Head(loc) = ".." THEN Resolve(Parent(dir), Tail(loc))
    ELSE IF Head(loc) = "." THEN Resolve(dir, Tail(loc))
    ELSE Resolve(Append(dir, Head(loc)), Tail(loc))

\* include_path of handle_imports
IncludePath(path, include_el) == Resolve(Parent(path), include_el.schemaLocation)

-----------------------------------------------------------------------------
(* The namespace registry *)

\* dict.get(key): None when the key is absent
RegGet(reg, ns) == IF ns \in DOMAIN reg THEN reg[ns] ELSE None

RegPut(reg, ns, pfx) == [x \in DOMAIN reg \cup {ns} |-> IF x = ns THEN pfx ELSE reg[x]]

\* set(self.ns_to_prefix.values())
UsedPrefixes(reg) == {reg[x] : x \in DOMAIN reg}

\* nsmap.get(prefix); the key of the default namespace is None, never ""
NsmapGet(nsmap, pfx) ==
    IF pfx # None /\ \E i \in DOMAIN nsmap : nsmap[i][1] = pfx
    THEN nsmap[CHOOSE i \in DOMAIN nsmap : nsmap[i][1] = pfx][2]
    ELSE None

\* ImportResolver.__init__: root_prefix
RECURSIVE RootPrefixFrom(_, _)
RootPrefixFrom(nsmap, tns) ==
    IF nsmap = <<>> THEN None
    ELSE IF Head(nsmap)[1] # None /\ Head(nsmap)[2] = tns THEN Head(nsmap)[1]
    ELSE RootPrefixFrom(Tail(nsmap), tns)

RootPrefixOf(file) == IF file.tns # None THEN RootPrefixFrom(file.nsmap, file.tns) ELSE None

\* ImportResolver.__init__: seeding of ns_to_prefix from the root's nsmap
RECURSIVE SeedRegistry(_, _, _, _)
SeedRegistry(nsmap, reg, tns, rootpfx) ==
    IF nsmap = <<>> THEN reg
    ELSE LET pfx == Head(nsmap)[1]
             ns_uri == Head(nsmap)[2]
         IN IF pfx # None /\ ns_uri # XSD /\ ns_uri \notin DOMAIN reg
               /\ ~(ns_uri = tns /\ rootpfx = None)
            THEN SeedRegistry(Tail(nsmap), RegPut(reg, ns_uri, pfx), tns, rootpfx)
            ELSE SeedRegistry(Tail(nsmap), reg, tns, rootpfx)

\* ImportResolver._collect_prefixes_from_schema
RECURSIVE _collect_prefixes_from_schema(_, _, _)
_collect_prefixes_from_schema(nsmap, reg, tns) ==
    IF nsmap = <<>> THEN reg
    ELSE LET pfx == Head(nsmap)[1]
             ns_uri == Head(nsmap)[2]
         IN IF pfx = None \/ ns_uri = XSD \/ ns_uri = tns
            THEN _collect_prefixes_from_schema(Tail(nsmap), reg, tns)
            ELSE IF ns_uri \notin DOMAIN reg
            THEN _collect_prefixes_from_schema(Tail(nsmap), RegPut(reg, ns_uri, pfx), tns)
            ELSE _collect_prefixes_from_schema(Tail(nsmap), reg, tns)

DeriveBase_WholeSegment(ns_uri) == Lower(RSplitLast(RStrip(ns_uri, "/"), "/"))

\* base of _derive_prefix_from_ns
DeriveBase(ns_uri) == Lower(SplitHead(RSplitLast(RStrip(ns_uri, "/"), "/"), "_"))

DeriveLoop_SuffixOnce(base, candidate, counter, used) ==
    IF candidate \in used THEN base \o Decimal(counter) ELSE candidate

\* the while loop of _derive_prefix_from_ns
RECURSIVE DeriveLoop(_, _, _, _)
DeriveLoop(base, candidate, counter, used) ==
    IF candidate \in used
    THEN DeriveLoop(base, base \o Decimal(counter), counter + 1, used)
    ELSE candidate

\* ImportResolver._derive_prefix_from_ns
_derive_prefix_from_ns(ns_uri, reg) ==
    DeriveLoop(DeriveBase(ns_uri), DeriveBase(ns_uri), 2, UsedPrefixes(reg))

-----------------------------------------------------------------------------
(* The rewriting passes of handle_imports, on one node *)

Unprefixed(v) == v # None /\ ~Contains(v, Colon)

\* 1) Prefix definition names: top-level named definitions only
PrefixName(n, add_prefix) ==
    IF n.tag \in DefTags /\ Unprefixed(n.name)
    THEN [n EXCEPT !.name = add_prefix \o n.name] ELSE n

\* 2) Prefix ref attributes
PrefixRef(n, add_prefix) ==
    IF Unprefixed(n.ref) THEN [n EXCEPT !.ref = add_prefix \o n.ref] ELSE n

\* 3) Prefix @type unless builtin
PrefixType(n, add_prefix) ==
    IF Unprefixed(n.type) /\ ~StartsWith(n.type, XsdColon)
    THEN [n EXCEPT !.type = add_prefix \o n.type] ELSE n

\* 4) Prefix @base in extension/restriction
PrefixBase(n, add_prefix) ==
    IF Unprefixed(n.base) /\ ~StartsWith(n.base, XsdColon)
    THEN [n EXCEPT !.base = add_prefix \o n.base] ELSE n

\* steps 1-4 of handle_imports (the block under "if add_prefix:")
PrefixImported(n, add_prefix) ==
    IF add_prefix # None
    THEN PrefixBase(PrefixType(PrefixRef(PrefixName(n, add_prefix), add_prefix),
                               add_prefix), add_prefix)
    ELSE n

\* 5) the value one attribute gets from the cross-namespace remapping
RemapValue(val, import_nsmap, reg) ==
    IF val = None \/ ~Contains(val, Colon) THEN val
    ELSE LET local_prefix == SplitHead(val, Colon)
             local == SplitTail(val, Colon)
             ref_ns == NsmapGet(import_nsmap, local_prefix)
         IN IF ref_ns = XSD THEN XsdColon \o local
            ELSE IF ref_ns = None THEN val
            ELSE IF ref_ns = root_target_ns
                 THEN IF root_prefix # None
                      THEN root_prefix \o <<Colon>> \o local
                      ELSE local
            ELSE IF RegGet(reg, ref_ns) # None
                 THEN RegGet(reg, ref_ns) \o <<Colon>> \o local
                 ELSE val

\* 5) whether the remapping logs "WARNING: No registry prefix for ..."
RemapWarns(val, import_nsmap, reg) ==
    /\ val # None
    /\ Contains(val, Colon)
    /\ LET ref_ns == NsmapGet(import_nsmap, SplitHead(val, Colon))
       IN /\ ref_ns # XSD
          /\ ref_ns # None
          /\ ref_ns # root_target_ns
          /\ RegGet(reg, ref_ns) = None

RemapAttrs == <<"type", "base", "ref", "substitutionGroup">>

RemapNode(n, import_nsmap, reg) ==
    [n EXCEPT
       !.type = RemapValue(@, import_nsmap, reg),
       !.base = RemapValue(@, import_nsmap, reg),
       !.ref = RemapValue(@, import_nsmap, reg),
       !.substitutionGroup =
            RemapValue(@, import_nsmap, reg)]

\* the warnings of step 5, in the order the loops log them
RECURSIVE WarningsFor(_, _, _, _)
WarningsFor(attr, nodes, import_nsmap, reg) ==
    IF nodes = <<>> THEN <<>>
    ELSE (IF RemapWarns(Head(nodes)[attr], import_nsmap, reg)
          THEN <<[attr |-> attr, val |-> Head(nodes)[attr],
                  gen |-> Head(nodes).gen, src |-> Head(nodes).src,
                  idx |-> Head(nodes).idx]>>
          ELSE <<>>)
         \o WarningsFor(attr, Tail(nodes), import_nsmap, reg)

RemapWarnings(nodes, import_nsmap, reg) ==
    WarningsFor("type", nodes, import_nsmap, reg)
    \o WarningsFor("base", nodes, import_nsmap, reg)
    \o WarningsFor("ref", nodes, import_nsmap, reg)
    \o WarningsFor("substitutionGroup", nodes, import_nsmap, reg)

\* steps 1-5 on the whole imported schema
RewriteImported(nodes, add_prefix, import_nsmap, reg) ==
    [i \in DOMAIN nodes |->
        RemapNode(PrefixImported(nodes[i], add_prefix),
                  import_nsmap, reg)]

\* an append loop that skips nothing
NotAnnotation_KeepAll(n) == TRUE

\* "if el.tag == f"{{{XSD}}}annotation": continue"
NotAnnotation(n) == n.tag # "annotation"

AppendImported_InFront(main_nodes, nodes) == SelectSeq(nodes, NotAnnotation) \o main_nodes

\* "Append imported schema contents to the main document"
AppendImported(main_nodes, nodes) == main_nodes \o SelectSeq(nodes, NotAnnotation)

-----------------------------------------------------------------------------
(* _prefix_root_elements and _normalize_xsd_prefixes, on one node *)

PrefixRootSubst(n, add_prefix) ==
    IF Unprefixed(n.substitutionGroup)
    THEN [n EXCEPT !.substitutionGroup = add_prefix \o n.substitutionGroup] ELSE n

_prefix_root_element(n, add_prefix) ==
    PrefixBase(PrefixType(PrefixRootSubst(PrefixRef(PrefixName(n, add_prefix),
               add_prefix), add_prefix), add_prefix), add_prefix)

_prefix_root_elements_AllNodes(nodes, k, add_prefix) ==
    [i \in DOMAIN nodes |-> _prefix_root_element(nodes[i], add_prefix)]

\* applies to the first k nodes (original_root_children) only
_prefix_root_elements(nodes, k, add_prefix) ==
    [i \in DOMAIN nodes |->
        IF i <= k THEN _prefix_root_element(nodes[i], add_prefix) ELSE nodes[i]]

NormalizeValue(val, xsd_prefixes) ==
    IF val = None \/ ~Contains(val, Colon) THEN val
    ELSE IF SplitHead(val, Colon) \in xsd_prefixes /\ SplitHead(val, Colon) # XsdPrefix
         THEN XsdColon \o SplitTail(val, Colon)
         ELSE val

_normalize_xsd_prefixes(nodes, xsd_prefixes) ==
    [i \in DOMAIN nodes |->
        [nodes[i] EXCEPT !.type = NormalizeValue(@, xsd_prefixes),
                         !.base = NormalizeValue(@, xsd_prefixes)]]

\* main(): the prefixes the root binds to the XSD namespace
XsdPrefixesOf(nsmap) ==
    {nsmap[i][1] : i \in {j \in DOMAIN nsmap : nsmap[j][1] # None /\ nsmap[j][2] = XSD}}

-----------------------------------------------------------------------------
(* Input files.  Two families of schema sets are checked: one that varies *)
(* the shape of the import graph (diamonds, cycles, self-imports, imports *)
(* of the root, missing files, a file in a subdirectory, one file named   *)
(* by two spellings), and one that varies the namespace declarations and  *)
(* the references of the files.                                           *)

\* the longest list of import directives of the root in the graph family
MaxRootDirectives == 2

InputPath == <<"d", "r.xsd">>
PathA == <<"d", "a.xsd">>
PathB == <<"d", "b.xsd">>
PathC == <<"d", "s", "c.xsd">>

TargetPath == [r |-> InputPath, a |-> PathA, b |-> PathB, c |-> PathC]

Last(s) == s[Len(s)]

IsPrefixOf(p, s) == Len(p) <= Len(s) /\ SubSeq(s, 1, Len(p)) = p

\* the relative schemaLocation that leads from the file at path from to path to
RelLoc(from, to) ==
    LET fd == Parent(from)
        td == Parent(to)
    IN IF IsPrefixOf(fd, td)
       THEN SubSeq(td, Len(fd) + 1, Len(td)) \o <<Last(to)>>
       ELSE [i \in 1..(Len(fd) - Len(td)) |-> ".."] \o <<Last(to)>>

\* a directive of the file at path from: to a file, to the missing file m.xsd,
\* or to a.xsd spelled s/../a.xsd
DirectiveTo(from, target) ==
    IF target = "m" THEN Directive("import", <<"m.xsd">>, None)
    ELSE IF target = "a_alt" THEN Directive("import", <<"s", "..", "a.xsd">>, None)
    ELSE IF target = "r" THEN Directive("include", RelLoc(from, InputPath), None)
    ELSE Directive("import", RelLoc(from, TargetPath[target]), None)

DirectivesTo(from, targets) == [i \in DOMAIN targets |-> DirectiveTo(from, targets[i])]

SeqsUpTo(S, n) == UNION {[1..k -> S] : k \in 0..n}

Str_T == <<"T">>
Str_e == <<"e">>
Str_h == <<"h">>
Pfx_a == <<"a">>
Pfx_b == <<"b">>
Pfx_p == <<"p">>
Pfx_q == <<"q">>
Pfx_r == <<"r">>
Pfx_xs == <<"x", "s">>
Pfx_z == <<"z">>

NsR == <<"u", "/", "r">>
NsA == <<"u", "/", "a">>
NsB == <<"u", "/", "b">>
\* derives the prefix a, like NsA
NsA1 == <<"v", "/", "A", "_", "1">>
\* derives the empty prefix
NsE == <<"u", "/", "_", "x">>

QName(pfx, local) == pfx \o <<Colon>> \o local

File(tns, nsmap, nodes) == [tns |-> tns, nsmap |-> nsmap, nodes |-> nodes]

\* the definitions every file of the graph family holds
GraphBody ==
    <<Node("annotation", None, None, None, None, None),
      Node("complexType", Str_T, None, None, None, None),
      Node("element", Str_e, Str_T, None, None, None)>>

GraphFiles(lr, la, lb, lc) ==
    (InputPath :> File(NsR, <<<<XsdPrefix, XSD>>>>,
                       DirectivesTo(InputPath, lr) \o GraphBody))
    @@ (PathA :> File(NsA, <<<<XsdPrefix, XSD>>, <<Pfx_a, NsA>>>>,
                      DirectivesTo(PathA, la) \o GraphBody))
    @@ (PathB :> File(NsB, <<<<Pfx_xs, XSD>>>>,
                      DirectivesTo(PathB, lb) \o GraphBody))
    @@ (PathC :> File(NsA1, <<>>, DirectivesTo(PathC, lc) \o GraphBody))

RootLists ==
    SeqsUpTo({"a", "b", "c", "m"}, MaxRootDirectives)
        \cup {<<"r">>, <<"r", "a">>, <<"a", "a_alt">>, <<"a_alt", "a">>}

ListsA == SeqsUpTo({"r", "a", "b", "c", "m"}, 1)
              \cup {<<"c", t>> : t \in {"r", "a", "b", "c", "m"}}

ListsB == {<<>>, <<"r">>, <<"a">>, <<"c">>}

ListsC == {<<>>, <<"r">>, <<"a">>, <<"c">>, <<"m">>}

GraphInputs ==
    {[family |-> "graph", lr |-> lr, la |-> la, lb |-> lb, lc |-> lc] :
        lr \in RootLists, la \in ListsA, lb \in ListsB, lc \in ListsC}


(* The namespace family: the root imports a.xsd and b.xsd, in either     *)
(* order; the three files take their targetNamespace and their xmlns      *)
(* declarations from the profiles below, and b.xsd carries one reference  *)
(* value on each of the four reference attributes.                        *)

RootProfiles ==
    {[tns |-> NsR, nsmap |-> <<<<None, NsR>>, <<XsdPrefix, XSD>>>>],
     [tns |-> NsR, nsmap |-> <<<<Pfx_xs, XSD>>, <<Pfx_r, NsR>>>>],
     [tns |-> None, nsmap |-> <<<<Pfx_xs, XSD>>, <<Pfx_p, NsA>>>>],
     [tns |-> NsR, nsmap |-> <<<<XsdPrefix, XSD>>, <<Pfx_r, NsR>>, <<Pfx_b, NsB>>>>]}

ProfilesA ==
    {[tns |-> NsA, nsmap |-> <<<<Pfx_xs, XSD>>, <<Pfx_a, NsA>>>>],
     [tns |-> NsA, nsmap |-> <<<<XsdPrefix, XSD>>>>],
     [tns |-> NsA, nsmap |-> <<<<Pfx_p, NsA>>, <<Pfx_xs, XSD>>>>],
     [tns |-> NsR, nsmap |-> <<<<Pfx_xs, XSD>>>>],
     [tns |-> None, nsmap |-> <<<<Pfx_xs, XSD>>>>],
     [tns |-> NsE, nsmap |-> <<<<Pfx_xs, XSD>>>>],
     [tns |-> NsA1, nsmap |-> <<<<Pfx_a, NsB>>, <<Pfx_xs, XSD>>>>]}

ProfilesB ==
    {[tns |-> NsB, nsmap |-> <<<<Pfx_xs, XSD>>, <<Pfx_b, NsB>>, <<Pfx_q, NsA>>>>],
     [tns |-> NsB, nsmap |-> <<<<Pfx_xs, XSD>>, <<Pfx_p, NsB>>, <<Pfx_a, NsA>>>>],
     [tns |-> NsB, nsmap |-> <<<<Pfx_q, NsE>>, <<Pfx_xs, XSD>>>>],
     [tns |-> NsA, nsmap |-> <<<<Pfx_a, NsB>>, <<Pfx_q, NsA>>, <<Pfx_xs, XSD>>>>],
     [tns |-> NsR, nsmap |-> <<<<Pfx_q, NsR>>, <<XsdPrefix, XSD>>>>],
     [tns |-> NsE, nsmap |-> <<<<Pfx_xs, XSD>>>>]}

RefValues ==
    {Str_T, QName(Pfx_q, Str_T), QName(Pfx_a, Str_T), QName(Pfx_p, Str_T),
     QName(Pfx_xs, Str_T), QName(Pfx_z, Str_T)}

\* the namespace attribute of the root's directive for a.xsd
Overrides == {None, NsB}

RootBody ==
    <<Node("complexType", Str_T, None, QName(Pfx_xs, Str_T), None, None),
      Node("element", Str_e, Str_T, None, QName(Pfx_xs, Str_e), Str_h),
      Node("element", Str_h, QName(XsdPrefix, Str_T), None, None, None)>>

BodyA ==
    <<Node("annotation", None, None, None, None, None),
      Node("complexType", Str_T, None, None, None, None),
      Node("element", Str_h, Str_T, None, None, None),
      Node("element", Str_e, Str_T, None, None, Str_h)>>

BodyB(v) ==
    <<Node("complexType", Str_T, None, None, None, None),
      Node("element", Str_e, v, v, v, v)>>

NamespaceRootDirectives(order, override) ==
    [i \in DOMAIN order |->
        IF order[i] = "a"
        THEN Directive("import", RelLoc(InputPath, PathA), override)
        ELSE Directive("import", RelLoc(InputPath, PathB), None)]

NamespaceFiles(pr, pa, pb, v, order, override) ==
    (InputPath :> File(pr.tns, pr.nsmap,
                       NamespaceRootDirectives(order, override) \o RootBody))
    @@ (PathA :> File(pa.tns, pa.nsmap, BodyA))
    @@ (PathB :> File(pb.tns, pb.nsmap, BodyB(v)))

NamespaceInputs ==
    {[family |-> "namespace", root |-> pr, a |-> pa, b |-> pb, ref |-> v,
      order |-> order, override |-> override] :
        pr \in RootProfiles, pa \in ProfilesA, pb \in ProfilesB, v \in RefValues,
        order \in {<<"a", "b">>, <<"b", "a">>}, override \in Overrides}

Inputs == GraphInputs \cup NamespaceInputs

\* before main() has read anything, the model has not fixed the files yet
NoInput == [family |-> "none"]

FilesOf(x) ==
    IF x.family = "graph"
    THEN GraphFiles(x.lr, x.la, x.lb, x.lc)
    ELSE IF x.family = "namespace"
    THEN NamespaceFiles(x.root, x.a, x.b, x.ref, x.order, x.override)
    ELSE << >>

\* the schema files on disk: canonical path -> file
fs == FilesOf(input)

\* lxml.etree.parse(path) of a file: its top-level nodes, as new objects
parse_xml(file, path, g) ==
    [i \in DOMAIN file.nodes |->
        [file.nodes[i] EXCEPT !.gen = g, !.src = path, !.idx = i]]

-----------------------------------------------------------------------------
(* The resolver and main() *)

\* one active call handle_imports(doc, path): the list the for loop walks,
\* the index of the directive it is at, and the locals of that iteration
Frame(path, nodes) ==
    [path |-> path, dirs |-> xpath_directives(nodes), i |-> 1,
     include_path |-> None, include_schema |-> <<>>, include_nsmap |-> <<>>,
     add_prefix |-> None]

Top == stack[Len(stack)]

AtDirective == pc = "imports" /\ stack # <<>> /\ Top.i <= Len(Top.dirs)

include_el == Top.dirs[Top.i]

include_path == IncludePath(Top.path, include_el)

ReplaceTop(f) == [stack EXCEPT ![Len(stack)] = f]

ResolverInit ==
    /\ input = NoInput
    /\ pc = "start"
    /\ doc = <<>>
    /\ root_nsmap = <<>>
    /\ root_target_ns = None
    /\ root_prefix = None
    /\ nOrig = 0
    /\ imported = {}
    /\ ns_to_prefix = << >>
    /\ stack = <<>>
    /\ warnings = <<>>
    /\ output = FALSE
    /\ parses = 0
    /\ parsedPaths = <<>>
    /\ mergedPaths = <<>>
    /\ entered = <<>>
    /\ calls = 0
    /\ again = FALSE

\* the hierarchy builder has not been given a document
Init == ResolverInit /\ hier = [phase |-> "off"]

\* main(): parse_xml(input_path), ImportResolver(main_doc), the snapshot of
\* the root's children; the files on disk are any one of Inputs
ImportResolver_init ==
    /\ pc = "start"
    /\ \E x \in Inputs : input' = x
    /\ LET file == FilesOf(input')[InputPath]
       IN /\ doc' = parse_xml(file, InputPath, 0)
          /\ root_nsmap' = file.nsmap
          /\ root_target_ns' = file.tns
          /\ root_prefix' = RootPrefixOf(file)
          /\ nOrig' = Len(file.nodes)
          /\ ns_to_prefix' = SeedRegistry(file.nsmap, << >>, file.tns,
                                          RootPrefixOf(file))
    /\ imported' = {}
    /\ pc' = "constructed"
    /\ UNCHANGED <<again, hier, stack, warnings, output, parses, parsedPaths, mergedPaths, entered,
                   calls>>

\* main(): resolver.handle_imports(main_doc, input_path)
handle_imports_call ==
    /\ pc = "constructed"
    /\ stack' = <<Frame(InputPath, doc)>>
    /\ calls' = calls + 1
    /\ pc' = "imports"
    /\ UNCHANGED <<again, hier, input, doc, root_nsmap, root_target_ns, root_prefix, nOrig, imported, ns_to_prefix, warnings, output,
                   parses, parsedPaths, mergedPaths, entered>>

\* a resolver that does not record the path it is about to parse
MarkImported_Forgotten(set, path) == set

\* "self.imported.add(include_path)"
MarkImported(set, path) == set \cup {path}

\* a resolver that takes no path for visited
Visited_Never(set, path) == FALSE

\* "include_path in self.imported"
Visited(set, path) == path \in set

\* "if include_path in self.imported: continue"
handle_imports_skip ==
    /\ AtDirective
    /\ Visited(imported, include_path)
    /\ stack' = ReplaceTop([Top EXCEPT !.i = @ + 1])
    /\ UNCHANGED <<again, hier, input, pc, doc, root_nsmap, root_target_ns, root_prefix, nOrig, imported, ns_to_prefix, warnings, output,
                   parses, parsedPaths, mergedPaths, entered, calls>>

\* a resolver that logs the missing file and goes on with the next directive
handle_imports_missing_swallowed ==
    /\ AtDirective
    /\ ~Visited(imported, include_path)
    /\ include_path \notin DOMAIN fs
    /\ imported' = MarkImported(imported, include_path)
    /\ parses' = parses + 1
    /\ parsedPaths' = Append(parsedPaths, include_path)
    /\ stack' = ReplaceTop([Top EXCEPT !.i = @ + 1])
    /\ UNCHANGED <<again, hier, input, pc, doc, root_nsmap, root_target_ns, root_prefix,
                   nOrig, ns_to_prefix, warnings, output, mergedPaths, entered, calls>>

\* lxml.etree.parse raises for a file that does not exist; no caller catches
\* it, so main() ends with the traceback before anything is written
handle_imports_missing ==
    /\ AtDirective
    /\ ~Visited(imported, include_path)
    /\ include_path \notin DOMAIN fs
    /\ imported' = MarkImported(imported, include_path)
    /\ parses' = parses + 1
    /\ parsedPaths' = Append(parsedPaths, include_path)
    /\ stack' = <<>>
    /\ pc' = "failed"
    /\ UNCHANGED <<again, hier, input, doc, root_nsmap, root_target_ns, root_prefix, nOrig, ns_to_prefix, warnings, output, mergedPaths, entered,
                   calls>>

\* a prefix choice that treats the root's namespace like any other
ChoosePrefix_RootLikeOthers(ns, reg) ==
    IF ns # None
    THEN IF RegGet(reg, ns) # None
         THEN <<reg, RegGet(reg, ns) \o <<Colon>>>>
         ELSE <<RegPut(reg, ns, _derive_prefix_from_ns(ns, reg)),
                _derive_prefix_from_ns(ns, reg) \o <<Colon>>>>
    ELSE <<reg, None>>

\* the prefix choice of handle_imports: <<registry, add_prefix>>
ChoosePrefix(ns, reg) ==
    IF ns # None /\ ns # root_target_ns
    THEN IF RegGet(reg, ns) # None
         THEN <<reg, RegGet(reg, ns) \o <<Colon>>>>
         ELSE <<RegPut(reg, ns, _derive_prefix_from_ns(ns, reg)),
                _derive_prefix_from_ns(ns, reg) \o <<Colon>>>>
    ELSE IF ns = root_target_ns /\ root_prefix # None
    THEN <<reg, root_prefix \o <<Colon>>>>
    ELSE <<reg, None>>

\* "ns = include_el.attrib.get("namespace") or include_schema.attrib.get(...)"
EffectiveNs(el, file) == IF el.namespace # None THEN el.namespace ELSE file.tns

\* a directive for a file not yet visited: mark it, parse it, collect its
\* prefixes, choose its prefix, and enter the recursive call on it
handle_imports_enter ==
    /\ AtDirective
    /\ ~Visited(imported, include_path)
    /\ include_path \in DOMAIN fs
    /\ LET file == fs[include_path]
           schema == parse_xml(file, include_path, parses + 1)
           collected == _collect_prefixes_from_schema(file.nsmap, ns_to_prefix,
                                                      root_target_ns)
           chosen == ChoosePrefix(EffectiveNs(include_el, file), collected)
       IN /\ ns_to_prefix' = chosen[1]
          /\ entered' = Append(entered,
                [path |-> include_path, gen |-> parses + 1,
                 ns |-> EffectiveNs(include_el, file),
                 add_prefix |-> chosen[2]])
          /\ stack' = Append(
                ReplaceTop([Top EXCEPT !.include_path = include_path,
                                       !.include_schema = schema,
                                       !.include_nsmap = file.nsmap,
                                       !.add_prefix = chosen[2]]),
                Frame(include_path, schema))
    /\ imported' = MarkImported(imported, include_path)
    /\ parses' = parses + 1
    /\ parsedPaths' = Append(parsedPaths, include_path)
    /\ calls' = calls + 1
    /\ UNCHANGED <<again, hier, input, pc, doc, root_nsmap, root_target_ns, root_prefix, nOrig, warnings, output, mergedPaths>>

\* a resolver that rewrites and appends a file without first going through
\* the file's own directives
handle_imports_merge_BeforeRecursion ==
    /\ pc = "imports"
    /\ Len(stack) > 1
    /\ LET caller == stack[Len(stack) - 1]
           import_nsmap == caller.include_nsmap
           prefixed == [i \in DOMAIN caller.include_schema |->
                           PrefixImported(caller.include_schema[i], caller.add_prefix)]
           rewritten == RewriteImported(caller.include_schema, caller.add_prefix,
                                        import_nsmap, ns_to_prefix)
       IN /\ doc' = AppendImported(doc, rewritten)
          /\ warnings' = warnings \o RemapWarnings(prefixed, import_nsmap,
                                                   ns_to_prefix)
          /\ mergedPaths' = Append(mergedPaths, caller.include_path)
          /\ stack' = [j \in 1..(Len(stack) - 1) |->
                          IF j = Len(stack) - 1
                          THEN [caller EXCEPT !.i = @ + 1, !.include_path = None,
                                              !.include_schema = <<>>,
                                              !.include_nsmap = <<>>,
                                              !.add_prefix = None]
                          ELSE stack[j]]
    /\ UNCHANGED <<again, hier, entered, input, pc, root_nsmap, root_target_ns, root_prefix, nOrig, imported, ns_to_prefix, output, parses,
                   parsedPaths, calls>>

\* the recursive call returns: rewrite the imported schema (steps 1-5) and
\* append its nodes to the main document
handle_imports_merge ==
    /\ pc = "imports"
    /\ Len(stack) > 1
    /\ Top.i > Len(Top.dirs)
    /\ LET caller == stack[Len(stack) - 1]
           import_nsmap == caller.include_nsmap
           prefixed == [i \in DOMAIN caller.include_schema |->
                           PrefixImported(caller.include_schema[i], caller.add_prefix)]
           rewritten == RewriteImported(caller.include_schema, caller.add_prefix,
                                        import_nsmap, ns_to_prefix)
       IN /\ doc' = AppendImported(doc, rewritten)
          /\ warnings' = warnings \o RemapWarnings(prefixed, import_nsmap,
                                                   ns_to_prefix)
          /\ mergedPaths' = Append(mergedPaths, caller.include_path)
          /\ stack' = [j \in 1..(Len(stack) - 1) |->
                          IF j = Len(stack) - 1
                          THEN [caller EXCEPT !.i = @ + 1, !.include_path = None,
                                              !.include_schema = <<>>,
                                              !.include_nsmap = <<>>,
                                              !.add_prefix = None]
                          ELSE stack[j]]
    /\ UNCHANGED <<again, hier, entered, input, pc, root_nsmap, root_target_ns, root_prefix, nOrig, imported, ns_to_prefix, output, parses,
                   parsedPaths, calls>>

\* the outermost call returns to main()
handle_imports_return ==
    /\ pc = "imports"
    /\ Len(stack) = 1
    /\ Top.i > Len(Top.dirs)
    /\ stack' = <<>>
    /\ pc' = "resolved"
    /\ UNCHANGED <<again, hier, input, doc, root_nsmap, root_target_ns, root_prefix, nOrig, imported, ns_to_prefix, warnings, output,
                   parses, parsedPaths, mergedPaths, entered, calls>>

\* main(): "if resolver.root_prefix: _prefix_root_elements(...)"
main_prefix_root ==
    /\ pc = "resolved"
    /\ doc' = IF root_prefix # None
              THEN _prefix_root_elements(doc, nOrig, root_prefix \o <<Colon>>)
              ELSE doc
    /\ pc' = "prefixed"
    /\ UNCHANGED <<again, hier, input, root_nsmap, root_target_ns, root_prefix, nOrig, imported, ns_to_prefix, stack, warnings, output,
                   parses, parsedPaths, mergedPaths, entered, calls>>

\* main(): "if xsd_prefixes - {"xsd"}: _normalize_xsd_prefixes(...)"
main_normalize ==
    /\ pc = "prefixed"
    /\ doc' = IF XsdPrefixesOf(root_nsmap) \ {XsdPrefix} # {}
              THEN _normalize_xsd_prefixes(doc, XsdPrefixesOf(root_nsmap))
              ELSE doc
    /\ pc' = "normalized"
    /\ UNCHANGED <<again, hier, input, root_nsmap, root_target_ns, root_prefix, nOrig, imported, ns_to_prefix, stack, warnings, output,
                   parses, parsedPaths, mergedPaths, entered, calls>>

\* main(): render the template and write the output file
main_write_output ==
    /\ pc = "normalized"
    /\ output' = TRUE
    /\ pc' = "done"
    /\ UNCHANGED <<again, hier, input, doc, root_nsmap, root_target_ns, root_prefix, nOrig, imported, ns_to_prefix, stack, warnings,
                   parses, parsedPaths, mergedPaths, entered, calls>>

Next ==
    \/ ImportResolver_init
    \/ handle_imports_call
    \/ handle_imports_skip
    \/ handle_imports_missing
    \/ handle_imports_enter
    \/ handle_imports_merge
    \/ handle_imports_return
    \/ main_prefix_root
    \/ main_normalize
    \/ main_write_output

Spec == Init /\ [][Next]_vars

\* handle_imports(main_doc, input_path) called once more on the same
\* resolver, after the first call has returned or has raised
handle_imports_again ==
    /\ pc \in {"resolved", "failed"}
    /\ ~again
    /\ again' = TRUE
    /\ stack' = <<Frame(InputPath, doc)>>
    /\ calls' = calls + 1
    /\ pc' = "imports"
    /\ UNCHANGED <<hier, input, doc, root_nsmap, root_target_ns, root_prefix, nOrig,
                   imported, ns_to_prefix, warnings, output, parses, parsedPaths,
                   mergedPaths, entered>>

AgainNext == Next \/ handle_imports_again

AgainSpec == Init /\ [][AgainNext]_vars

-----------------------------------------------------------------------------
(* Properties *)

\* handle_imports has returned to main()
Resolved == pc \in {"resolved", "prefixed", "normalized", "done"}

DirectiveIdx(file) == {i \in DOMAIN file.nodes : file.nodes[i].tag \in DirectiveTags}

\* the canonical paths the directives of the file at p name
ImportsOf(files, p) == {IncludePath(p, files[p].nodes[i]) : i \in DirectiveIdx(files[p])}

DefinitionIdx(file) == {i \in DOMAIN file.nodes : file.nodes[i].tag \in DefTags}

\* how many nodes of the merged document are node k of the file at p
Occurrences(p, k) == Cardinality({i \in DOMAIN doc : doc[i].src = p /\ doc[i].idx = k})

NoDuplicates(s) == \A i, j \in DOMAIN s : i # j => s[i] # s[j]

\* the root imports A and B, and both import D
IsDiamond(files, A, B, D) ==
    /\ A # InputPath /\ B # InputPath /\ A # B
    /\ {A, B} \subseteq ImportsOf(files, InputPath)
    /\ D \in ImportsOf(files, A) \cap ImportsOf(files, B)

\* C1: when the root imports files A and B and both import the same file D,
\* then after handle_imports every top-level definition of D is in the merged
\* root document exactly once.
C1_DiamondOnce ==
    Resolved =>
        LET files == fs
        IN \A A, B, D \in DOMAIN files :
              IsDiamond(files, A, B, D)
                  => \A k \in DefinitionIdx(files[D]) : Occurrences(D, k) = 1

\* the same for a file D other than the root file
C1_DiamondOnceNotRoot ==
    Resolved =>
        LET files == fs
        IN \A A, B, D \in DOMAIN files :
              IsDiamond(files, A, B, D) /\ D # InputPath
                  => \A k \in DefinitionIdx(files[D]) : Occurrences(D, k) = 1

\* a diamond whose bottom file is not the root has been resolved
C1_DiamondResolved ==
    /\ pc = "resolved"
    /\ LET files == fs
       IN \E A, B, D \in DOMAIN files :
             IsDiamond(files, A, B, D) /\ D \notin {A, B, InputPath}

\* C2: in every import graph, cyclic ones and ones that import the root
\* back included, no path is parsed twice by the resolver and no file has
\* its nodes merged into the root document twice.
C2_AtMostOnce == NoDuplicates(parsedPaths) /\ NoDuplicates(mergedPaths)

\* a file imported the root back, and the resolver parsed and merged the root
\* file
C2_RootImportedBack ==
    /\ Resolved
    /\ LET files == fs
       IN \E A \in DOMAIN files \ {InputPath} :
             A \in ImportsOf(files, InputPath) /\ InputPath \in ImportsOf(files, A)
    /\ \E i \in DOMAIN mergedPaths : mergedPaths[i] = InputPath


\* every canonical path a directive of some file names, and the files
AllPaths == DOMAIN fs \cup UNION {ImportsOf(fs, p) : p \in DOMAIN fs}

RECURSIVE RemainingFrom(_, _)
\* the loop iterations and returns the active calls below frame k still owe
RemainingFrom(frames, k) ==
    IF k = 0 THEN 0
    ELSE (Len(frames[k].dirs) + 1 - frames[k].i) + 1 + RemainingFrom(frames, k - 1)

Remaining == RemainingFrom(stack, Len(stack))

\* a step inside handle_imports visits a new path or else works off one of
\* the iterations and returns that are still owed
Progress ==
    (pc = "imports" /\ pc' = "imports")
        => \/ imported \subseteq imported' /\ imported' # imported
           \/ imported' = imported /\ Remaining' < Remaining

\* the guards of the five steps of handle_imports: one of them is open
Runnable ==
    \/ AtDirective /\ Visited(imported, include_path)
    \/ AtDirective /\ ~Visited(imported, include_path) /\ include_path \notin DOMAIN fs
    \/ AtDirective /\ ~Visited(imported, include_path) /\ include_path \in DOMAIN fs
    \/ pc = "imports" /\ Len(stack) > 1 /\ Top.i > Len(Top.dirs)
    \/ pc = "imports" /\ Len(stack) = 1 /\ Top.i > Len(Top.dirs)

\* C3: handle_imports terminates on every set of files, whatever the shape of
\* the import graph: while it runs one of its steps can be taken, the visited
\* set stays within the finitely many paths the files name, and every step
\* inside it either visits a new path or lowers the number of iterations and
\* returns still owed, so it returns or fails on a missing file; and it is
\* entered at most once per file path besides the call made by main().
C3_Terminates ==
    /\ [](calls <= 1 + Cardinality(DOMAIN fs))
    /\ [](pc = "imports" => (imported \subseteq AllPaths /\ Runnable))
    /\ [][Progress]_vars

\* two files import each other and the resolution of their cycle has returned
C3_CycleResolved ==
    /\ pc = "resolved"
    /\ calls >= 3
    /\ LET files == fs
       IN \E A, B \in DOMAIN files \ {InputPath} :
             A # B /\ B \in ImportsOf(files, A) /\ A \in ImportsOf(files, B)

\* C4: the registry never maps two distinct namespaces to the same prefix.
C4_Injective ==
    \A n1, n2 \in DOMAIN ns_to_prefix :
        n1 # n2 => ns_to_prefix[n1] # ns_to_prefix[n2]

\* the input files hold no two top-level definitions of one kind with the same
\* namespace and the same local name
InputsDistinct(files) ==
    \A p1, p2 \in DOMAIN files :
        \A k1 \in DefinitionIdx(files[p1]), k2 \in DefinitionIdx(files[p2]) :
            (<<p1, k1>> # <<p2, k2>>
             /\ files[p1].nodes[k1].tag = files[p2].nodes[k2].tag
             /\ files[p1].nodes[k1].name = files[p2].nodes[k2].name)
                => files[p1].tns # files[p2].tns

\* no two top-level definitions of one kind in the merged document share a name
NamesUnique ==
    \A i, j \in DOMAIN doc :
        (i # j /\ doc[i].tag \in DefTags /\ doc[i].tag = doc[j].tag)
            => doc[i].name # doc[j].name

\* C5: when the input files hold no two definitions of one kind with the same
\* namespace and local name, then after handle_imports no two top-level
\* definitions of one kind in the merged document have the same name.
C5_NamesUnique == (Resolved /\ InputsDistinct(fs)) => NamesUnique

-----------------------------------------------------------------------------
(* References *)

\* the value attribute attr of node n had in the file it was parsed from
SourceValue(files, n, attr) == files[n.src].nodes[n.idx][attr]

\* the node was appended by handle_imports, not parsed by main()
Imported(n) == n.gen > 0

\* C6: a type, base, ref or substitutionGroup of an imported file whose prefix
\* the file binds to a namespace N with a registry entry reads, once the file
\* is merged, "<registry prefix of N>:<local name>".
C6_RemappedToRegistry ==
    (pc \in {"imports", "resolved"}) =>
        LET files == fs
        IN \A i \in DOMAIN doc :
             \A k \in DOMAIN RemapAttrs :
                LET attr == RemapAttrs[k]
                    v == SourceValue(files, doc[i], attr)
                    N == NsmapGet(files[doc[i].src].nsmap, SplitHead(v, Colon))
                IN (Imported(doc[i]) /\ v # None /\ Contains(v, Colon)
                    /\ N \in DOMAIN ns_to_prefix)
                       => doc[i][attr] =
                             ns_to_prefix[N] \o <<Colon>> \o SplitTail(v, Colon)

\* the same for a namespace whose registry prefix is not the empty string
C6_RemappedToNonEmpty ==
    (pc \in {"imports", "resolved"}) =>
        LET files == fs
        IN \A i \in DOMAIN doc :
             \A k \in DOMAIN RemapAttrs :
                LET attr == RemapAttrs[k]
                    v == SourceValue(files, doc[i], attr)
                    N == NsmapGet(files[doc[i].src].nsmap, SplitHead(v, Colon))
                IN (Imported(doc[i]) /\ v # None /\ Contains(v, Colon)
                    /\ N \in DOMAIN ns_to_prefix /\ ns_to_prefix[N] # None)
                       => doc[i][attr] =
                             ns_to_prefix[N] \o <<Colon>> \o SplitTail(v, Colon)

\* the kinds of definition an attribute can name
TargetTags(attr) ==
    IF attr \in {"type", "base"} THEN {"complexType", "simpleType"}
    ELSE IF attr = "ref" THEN {"element", "group", "attributeGroup"}
    ELSE {"element"}

\* in file F the value v of attr names definition k of the file at p: an
\* unprefixed value names a definition of F itself, a prefixed one a
\* definition of the namespace F binds the prefix to
PointsAt(files, F, attr, v, p, k) ==
    /\ v # None
    /\ k \in DefinitionIdx(files[p])
    /\ files[p].nodes[k].tag \in TargetTags(attr)
    /\ IF Contains(v, Colon)
       THEN /\ NsmapGet(files[F].nsmap, SplitHead(v, Colon)) # None
            /\ files[p].tns = NsmapGet(files[F].nsmap, SplitHead(v, Colon))
            /\ files[p].nodes[k].name = SplitTail(v, Colon)
       ELSE /\ p = F
            /\ files[p].nodes[k].name = v

\* the files of the import closure: the root and the files merged into it
InClosure(p) == p = InputPath \/ \E i \in DOMAIN mergedPaths : mergedPaths[i] = p

\* C7: after the closure, the root-prefix pass and the normalization, every
\* type, base, ref and substitutionGroup that in its file named a top-level
\* definition of the closure is textually equal to the name that definition
\* has in the merged document.
C7_ReferencesResolve ==
    (pc = "done") =>
        LET files == fs
        IN \A i \in DOMAIN doc :
             \A a \in DOMAIN RemapAttrs :
               \A p \in DOMAIN files :
                 \A k \in DOMAIN files[p].nodes :
                    (InClosure(p)
                     /\ PointsAt(files, doc[i].src, RemapAttrs[a],
                                 SourceValue(files, doc[i], RemapAttrs[a]), p, k))
                        => \E j \in DOMAIN doc :
                              /\ doc[j].src = p
                              /\ doc[j].idx = k
                              /\ doc[j].name = doc[i][RemapAttrs[a]]

RECURSIVE Reach(_, _)
\* the paths reached from the set seen by following directives of files
Reach(files, seen) ==
    LET more == UNION {ImportsOf(files, p) : p \in seen \cap DOMAIN files}
    IN IF more \subseteq seen THEN seen ELSE Reach(files, seen \cup more)

\* some file the root transitively refers to does not exist
MissingReferenced == \E p \in Reach(fs, {InputPath}) : p \notin DOMAIN fs

\* C8: when a file that a directive transitively refers to does not exist,
\* handle_imports never returns to main() and nothing is written; the failure
\* unwinds every active call, no output exists after it, and the run takes no
\* further step.
C8_MissingIsFatal ==
    /\ [](MissingReferenced => (~Resolved /\ ~output))
    /\ []((\E i \in DOMAIN parsedPaths : parsedPaths[i] \notin DOMAIN fs)
             => (pc = "failed" /\ stack = <<>> /\ ~output))
    /\ [][pc # "failed"]_vars

\* the run failed on a missing file after it had merged another file
C8_FailedAfterMerge ==
    /\ pc = "failed"
    /\ mergedPaths # <<>>
    /\ \E i \in DOMAIN parsedPaths : parsedPaths[i] \notin DOMAIN fs

\* the file at F binds the prefix of v to no namespace, or to one that is
\* neither the XSD namespace nor the root's and has no registry prefix
Unresolvable(files, F, v) ==
    /\ v # None
    /\ Contains(v, Colon)
    /\ LET N == NsmapGet(files[F].nsmap, SplitHead(v, Colon))
       IN \/ N = None
          \/ N # XSD /\ N # root_target_ns /\ RegGet(ns_to_prefix, N) = None

\* a warning was logged for attribute attr of node n
Diagnosed(n, attr) ==
    \E w \in DOMAIN warnings :
        /\ warnings[w].attr = attr
        /\ warnings[w].gen = n.gen
        /\ warnings[w].idx = n.idx

\* C9: a prefixed reference of an imported file whose prefix resolves to no
\* namespace with a registry entry keeps its value when the file is merged
\* and has a warning logged for it.
C9_KeptAndDiagnosed ==
    (pc \in {"imports", "resolved"}) =>
        LET files == fs
        IN \A i \in DOMAIN doc :
             \A k \in DOMAIN RemapAttrs :
                LET attr == RemapAttrs[k]
                    v == SourceValue(files, doc[i], attr)
                IN (Imported(doc[i]) /\ Unresolvable(files, doc[i].src, v))
                      => (doc[i][attr] = v /\ Diagnosed(doc[i], attr))

\* the same without the warning: the value is kept
C9_Kept ==
    (pc \in {"imports", "resolved"}) =>
        LET files == fs
        IN \A i \in DOMAIN doc :
             \A k \in DOMAIN RemapAttrs :
                LET attr == RemapAttrs[k]
                    v == SourceValue(files, doc[i], attr)
                IN (Imported(doc[i]) /\ Unresolvable(files, doc[i].src, v))
                      => doc[i][attr] = v

-----------------------------------------------------------------------------
(* Names of imported definitions *)

\* the record of the entry of the file node n was parsed from
EnteredOf(n) == entered[CHOOSE e \in DOMAIN entered : entered[e].gen = n.gen]

\* the prefix handle_imports applied was the empty string
EmptyPrefixUsed == \E e \in DOMAIN entered : entered[e].add_prefix = <<Colon>>

\* after handle_imports, an imported top-level definition whose name had no
\* prefix and whose effective namespace is not the root's is named with the
\* registry's prefix for that namespace
ImportedNamesPrefixed ==
    Resolved =>
        LET files == fs
        IN \A i \in DOMAIN doc :
             (/\ Imported(doc[i])
              /\ doc[i].tag \in DefTags
              /\ Unprefixed(SourceValue(files, doc[i], "name"))
              /\ EnteredOf(doc[i]).ns # None
              /\ EnteredOf(doc[i]).ns # root_target_ns)
                 => /\ EnteredOf(doc[i]).ns \in DOMAIN ns_to_prefix
                    /\ doc[i].name =
                          ns_to_prefix[EnteredOf(doc[i]).ns] \o <<Colon>>
                             \o SourceValue(files, doc[i], "name")

\* when the resolver enters a file whose effective namespace is already in
\* the registry, it uses that entry and leaves it as it is
ExistingEntryReused ==
    (Len(entered') > Len(entered))
        => LET e == entered'[Len(entered')]
           IN (e.ns # None /\ e.ns # root_target_ns /\ e.ns \in DOMAIN ns_to_prefix)
                 => /\ ns_to_prefix'[e.ns] = ns_to_prefix[e.ns]
                    /\ e.add_prefix = ns_to_prefix[e.ns] \o <<Colon>>

\* C11: after resolve every top-level named definition of an imported file
\* whose effective namespace N is not the root's and whose name had no prefix
\* is named "<p>:<local name>", p the registry's prefix for N: the entry that
\* existed when the file was entered, otherwise a newly derived one.
C11_ImportedNamesPrefixed ==
    /\ []ImportedNamesPrefixed
    /\ [][ExistingEntryReused]_vars

\* the same for runs in which no file was given the empty prefix
C11_NamesPrefixedNonEmpty == (~EmptyPrefixUsed) => ImportedNamesPrefixed

\* node n is a definition of the root namespace: the root's own, or one of a
\* file entered with the root's target namespace as its effective namespace
InRootNamespace(n) ==
    /\ n.tag \in DefTags
    /\ (Imported(n) => EnteredOf(n).ns = root_target_ns)

\* C12: when the root declares no prefix for its target namespace, the
\* root's definitions and the definitions of every imported file whose
\* effective namespace is the root's keep their bare names; when the root
\* declares such a prefix, the definitions of those imported files are named
\* with the root prefix.
C12_RootNamespaceNames ==
    LET files == fs
    IN \A i \in DOMAIN doc :
         InRootNamespace(doc[i]) =>
            IF root_prefix = None
            THEN doc[i].name = SourceValue(files, doc[i], "name")
            ELSE Imported(doc[i]) =>
                    doc[i].name = root_prefix \o <<Colon>>
                                     \o SourceValue(files, doc[i], "name")

\* the run is over, the root has a target namespace without a prefix and
\* another file of that namespace was merged into it
C12_BareImportMerged ==
    /\ pc = "done"
    /\ root_prefix = None
    /\ root_target_ns # None
    /\ \E i \in DOMAIN doc :
          Imported(doc[i]) /\ InRootNamespace(doc[i]) /\ doc[i].src # InputPath

-----------------------------------------------------------------------------
(* The reserved prefix *)

\* in its file the value v carries a prefix the file binds to the XSD namespace
DenotesXsd(files, F, v) ==
    /\ v # None
    /\ Contains(v, Colon)
    /\ NsmapGet(files[F].nsmap, SplitHead(v, Colon)) = XSD

\* attribute attr of every node reads "xsd:<local name>" when its value in the
\* file denoted the XSD namespace
CanonicalIn(attrs) ==
    LET files == fs
    IN \A i \in DOMAIN doc :
         \A attr \in attrs :
            DenotesXsd(files, doc[i].src, SourceValue(files, doc[i], attr))
               => doc[i][attr] =
                     XsdColon \o SplitTail(SourceValue(files, doc[i], attr), Colon)

\* C13: after resolve and the final normalization every type, base, ref and
\* substitutionGroup whose prefix denoted the XSD namespace in its file reads
\* "xsd:<local name>", in nodes of the root and of imported files alike.
C13_CanonicalXsdPrefix ==
    (pc = "done") => CanonicalIn({"type", "base", "ref", "substitutionGroup"})

\* the same for type and base only
C13_CanonicalTypeBase == (pc = "done") => CanonicalIn({"type", "base"})

-----------------------------------------------------------------------------
(* Appended nodes *)

\* how many nodes of the merged document are node k of the parse numbered g
Copies(g, k) == Cardinality({i \in DOMAIN doc : doc[i].gen = g /\ doc[i].idx = k})

\* C14: no top-level annotation of an imported file is ever in the merged
\* document, and after resolve every other top-level node of every imported
\* file, direct or transitive, is in it, once.
C14_AnnotationsDropped ==
    /\ \A i \in DOMAIN doc : Imported(doc[i]) => doc[i].tag # "annotation"
    /\ Resolved =>
          LET files == fs
          IN \A e \in DOMAIN entered :
                \A k \in DOMAIN files[entered[e].path].nodes :
                   files[entered[e].path].nodes[k].tag # "annotation"
                      => Copies(entered[e].gen, k) = 1

\* resolve has merged a file with a top-level annotation that was imported by
\* an imported file
C14_NestedAnnotatedMerged ==
    /\ Resolved
    /\ Len(entered) >= 2
    /\ mergedPaths[1] # entered[1].path
    /\ LET files == fs
       IN \E k \in DOMAIN files[mergedPaths[1]].nodes :
             files[mergedPaths[1]].nodes[k].tag = "annotation"


-----------------------------------------------------------------------------
\* Hierarchy and usage-graph builder.  It works on the frozen merged
\* document; the document is abstracted to what the builder reads: a chain
\* of complex types, each deriving from the one before it, with the element
\* names declared in each type's own content model (for a restriction: in
\* its restriction node), and the top-level elements typed by them.

MaxChain == 4

ElementNames == {"x", "y", "z"}

\* the content a type presents to the types derived from it
RECURSIVE Content(_, _)
Content(types, t) ==
    IF types[t].kind = "extension"
    THEN types[t].own \cup Content(types, t - 1)
    ELSE types[t].own

\* a derived type is well formed: an extension adds names its base does not
\* have, a restriction redeclares names of its base
WellDerived(types) ==
    LET t    == Len(types)
        base == Content(types, t - 1)
    IN  IF types[t].kind = "extension"
        THEN types[t].own \cap base = {}
        ELSE types[t].own \subseteq base

RECURSIVE Chains(_)
Chains(n) ==
    IF n = 1
    THEN {<<[kind |-> "none", own |-> o]>> : o \in (SUBSET ElementNames) \ {{}}}
    ELSE {c \in {Append(b, [kind |-> k, own |-> o]) :
                    b \in Chains(n - 1),
                    k \in {"extension", "restriction"},
                    o \in SUBSET ElementNames} : WellDerived(c)}

TypeDef(t) == [tag |-> "complexType", id |-> t]
ElementDef(t) == [tag |-> "element", id |-> t]

\* the top-level definitions in document order: the types, then the elements
RECURSIVE ElementDefs(_, _, _)
ElementDefs(elements, t, n) ==
    IF t > n THEN <<>>
    ELSE (IF t \in elements THEN <<ElementDef(t)>> ELSE <<>>)
         \o ElementDefs(elements, t + 1, n)

Definitions(h) ==
    [t \in 1 .. Len(h.types) |-> TypeDef(t)]
    \o ElementDefs(h.elements, 1, Len(h.types))

HasBase(types, t) == types[t].kind # "none"
BaseOf(t) == t - 1

\* the direct references of one definition: a type refers to its base, an
\* element to its declared type
DirectEdges_Flattened(types, d) ==
    IF d.tag = "element"
    THEN {[target |-> d.id, user |-> d, edge |-> "type"]}
    ELSE {[target |-> b, user |-> d, edge |-> types[d.id].kind] : b \in 1 .. (d.id - 1)}

DirectEdges(types, d) ==
    IF d.tag = "element"
    THEN {[target |-> d.id, user |-> d, edge |-> "type"]}
    ELSE IF HasBase(types, d.id)
         THEN {[target |-> BaseOf(d.id), user |-> d, edge |-> types[d.id].kind]}
         ELSE {}

AddEdges(usage, edges) ==
    [t \in DOMAIN usage |->
        usage[t] \cup {[user |-> e.user, edge |-> e.edge] : e \in {x \in edges : x.target = t}}]

\* the usage set of a type, and its "extended by" view
usages(usage, t) == {e.user : e \in usage[t]}

extended_by_AnyDerivation(usage, t) ==
    {e.user : e \in {x \in usage[t] : x.edge \in {"extension", "restriction"}}}

extended_by(usage, t) ==
    {e.user : e \in {x \in usage[t] : x.edge = "extension"}}

\* inheritance steps: the chain of a derived type from the chain of its base
ExtensionStep(types, t, baseChain) ==
    Append(baseChain, [ancestor |-> BaseOf(t), kind |-> "extension",
                       retained |-> types[BaseOf(t)].own])

RestrictionStep_KeepBase(types, t, baseChain) ==
    Append(baseChain, [ancestor |-> BaseOf(t), kind |-> "restriction",
                       retained |-> types[BaseOf(t)].own])

RestrictionStep(types, t, baseChain) ==
    <<[ancestor |-> BaseOf(t), kind |-> "restriction", retained |-> types[t].own]>>

\* the inherited element set of a type: everything its chain retains
Inherited(chain) == UNION {chain[i].retained : i \in DOMAIN chain}

InheritanceStep(types, t, cache) ==
    IF ~HasBase(types, t) THEN <<>>
    ELSE IF types[t].kind = "restriction"
         THEN RestrictionStep(types, t, cache[BaseOf(t)])
         ELSE ExtensionStep(types, t, cache[BaseOf(t)])

HierInit ==
    /\ ResolverInit
    \* top-level elements: none, one for the first type, or one for every type
    /\ \E n \in 1 .. MaxChain : \E c \in Chains(n) : \E E \in {{}, {1}, 1 .. n} :
          hier = [phase |-> "usage", types |-> c, elements |-> E,
                  pos |-> 1, usage |-> [t \in 1 .. n |-> {}],
                  cache |-> [t \in {} |-> <<>>], stack |-> <<>>]

\* buildUsageGraph: one definition of the document per step
buildUsageGraph_step ==
    /\ hier.phase = "usage"
    /\ LET defs == Definitions(hier)
           pos  == hier.pos
       IN  /\ pos <= Len(defs)
           /\ hier' = [hier EXCEPT
                  !.usage = AddEdges(@, DirectEdges(hier.types, defs[pos])),
                  !.pos = pos + 1,
                  !.phase = IF pos = Len(defs) THEN "built" ELSE "usage"]
    /\ UNCHANGED resolverVars

\* resolveInheritance(type), asked for a type that is not cached yet
resolveInheritance_call ==
    /\ hier.phase = "built"
    /\ hier.stack = <<>>
    /\ \E t \in 1 .. Len(hier.types) :
          /\ t \notin DOMAIN hier.cache
          /\ hier' = [hier EXCEPT !.stack = <<t>>]
    /\ UNCHANGED resolverVars

\* the base of the type on top is not cached: resolve it first
resolveInheritance_recurse ==
    /\ hier.phase = "built"
    /\ hier.stack # <<>>
    /\ LET t == hier.stack[Len(hier.stack)]
       IN  /\ HasBase(hier.types, t)
           /\ BaseOf(t) \notin DOMAIN hier.cache
           /\ hier' = [hier EXCEPT !.stack = Append(@, BaseOf(t))]
    /\ UNCHANGED resolverVars

\* the chain of the type on top is computed from its base's and cached
resolveInheritance_return ==
    /\ hier.phase = "built"
    /\ hier.stack # <<>>
    /\ LET t == hier.stack[Len(hier.stack)]
       IN  /\ HasBase(hier.types, t) => BaseOf(t) \in DOMAIN hier.cache
           /\ hier' = [hier EXCEPT
                  !.cache = [u \in DOMAIN hier.cache \cup {t} |->
                                IF u = t THEN InheritanceStep(hier.types, t, hier.cache)
                                ELSE hier.cache[u]],
                  !.stack = SubSeq(@, 1, Len(@) - 1)]
    /\ UNCHANGED resolverVars

HierNext ==
    \/ buildUsageGraph_step
    \/ resolveInheritance_call
    \/ resolveInheritance_recurse
    \/ resolveInheritance_return

HierSpec == HierInit /\ [][HierNext]_vars


\* the elements declared by the types from r up to (not including) d
OwnBetween(types, r, d) == UNION {types[j].own : j \in r .. (d - 1)}

\* the views of a chain that are inherited from ancestor a
ViewsFrom(chain, a) == {chain[i] : i \in {j \in DOMAIN chain : chain[j].ancestor = a}}

\* C15: below a restriction R1, a type that extends R1 inherits from R1
\* exactly the elements redeclared in R1's restriction node, and every
\* inherited view of every descendant of R1, at any depth and through any
\* mix of extensions and restrictions, holds only elements declared by R1
\* or by a type between R1 and that descendant: an element of the base that
\* R1 did not redeclare appears in none of them.
C15_RestrictionDropPropagates ==
    (hier.phase = "built") =>
        \A r \in DOMAIN hier.cache : \A d \in DOMAIN hier.cache :
            (hier.types[r].kind = "restriction" /\ r < d) =>
                /\ \A i \in DOMAIN hier.cache[d] :
                       hier.cache[d][i].retained \subseteq OwnBetween(hier.types, r, d)
                /\ (d = r + 1 /\ hier.types[d].kind = "extension") =>
                       /\ \E v \in ViewsFrom(hier.cache[d], r) : TRUE
                       /\ \A v \in ViewsFrom(hier.cache[d], r) :
                              v.retained = hier.types[r].own
                       /\ Inherited(hier.cache[d]) = hier.types[r].own

\* Base <- restriction R1 that drops an element <- extension R2 <- extension,
\* all resolved
C15_DroppedBelowRestriction ==
    /\ hier.phase = "built"
    /\ Len(hier.types) = 4
    /\ 4 \in DOMAIN hier.cache
    /\ hier.types[2].kind = "restriction"
    /\ hier.types[2].own # {}
    /\ hier.types[1].own \ hier.types[2].own # {}
    /\ hier.types[3].kind = "extension"
    /\ hier.types[4].kind = "extension"


\* the definitions with a direct reference to type t: the types whose base
\* is t and the elements whose declared type is t
DirectReferrers(types, elements, t) ==
    {TypeDef(u) : u \in {v \in 1 .. Len(types) : HasBase(types, v) /\ BaseOf(v) = t}}
    \cup {ElementDef(u) : u \in elements \cap {t}}

\* C16: the usage set of every type holds direct referrers only, and once
\* the graph is built it is exactly the set of direct referrers: the types
\* that extend or restrict it as their base and the elements whose declared
\* type it is; a type that derives from it through an intermediate type is
\* never in it.
C16_UsageIsDirect ==
    (hier.phase # "off") =>
        \A t \in DOMAIN hier.usage :
            /\ usages(hier.usage, t) \subseteq DirectReferrers(hier.types, hier.elements, t)
            /\ (hier.phase = "built") =>
                   usages(hier.usage, t) = DirectReferrers(hier.types, hier.elements, t)
            /\ \A u \in DOMAIN hier.usage :
                   u > t + 1 => TypeDef(u) \notin usages(hier.usage, t)

\* Base -> Mid -> Leaf by extension, Base with its own top-level element:
\* the built usage set of Base is Mid and that element
C16_ThreeLevelChainBuilt ==
    /\ hier.phase = "built"
    /\ Len(hier.types) >= 3
    /\ hier.types[2].kind = "extension"
    /\ hier.types[3].kind = "extension"
    /\ 1 \in hier.elements
    /\ usages(hier.usage, 1) = {TypeDef(2), ElementDef(1)}

\* C17: the "extended by" view of every type is a subset of its usage set,
\* and once the graph is built it holds exactly the types that derive from
\* it directly by extension: no element, no restricting type, no indirect
\* subtype, and nothing at all for a type without a direct extension subtype.
C17_ExtendedByIsExtensionSubset ==
    (hier.phase # "off") =>
        \A t \in DOMAIN hier.usage :
            /\ extended_by(hier.usage, t) \subseteq usages(hier.usage, t)
            /\ (hier.phase = "built") =>
                   extended_by(hier.usage, t) =
                       {TypeDef(u) : u \in {v \in 1 .. Len(hier.types) :
                            hier.types[v].kind = "extension" /\ BaseOf(v) = t}}

\* a type used by its element and by a restricting type has an empty view,
\* the restricting type is listed by the type that extends it
C17_RestrictedNotListed ==
    /\ hier.phase = "built"
    /\ Len(hier.types) >= 3
    /\ hier.types[2].kind = "restriction"
    /\ hier.types[3].kind = "extension"
    /\ hier.elements = 1 .. Len(hier.types)
    /\ usages(hier.usage, 1) = {TypeDef(2), ElementDef(1)}
    /\ extended_by(hier.usage, 1) = {}
    /\ extended_by(hier.usage, 2) = {TypeDef(3)}
    /\ extended_by(hier.usage, Len(hier.types)) = {}

\* C18: in every imported file that receives a prefix, every unprefixed
\* same-file reference (ref, type, base, substitutionGroup) is rewritten to
\* carry that prefix, the one the file's own definitions were renamed with.
C18_SameFileRefsPrefixed ==
    Resolved =>
        LET files == fs
        IN \A i \in DOMAIN doc :
             \A attr \in {"ref", "type", "base", "substitutionGroup"} :
                (/\ Imported(doc[i])
                 /\ EnteredOf(doc[i]).add_prefix # None
                 /\ Unprefixed(SourceValue(files, doc[i], attr)))
                    => doc[i][attr] =
                          EnteredOf(doc[i]).add_prefix
                             \o SourceValue(files, doc[i], attr)


\* once the root pass has run with a root prefix, the root's original nodes
\* carry it on every name and reference that had no prefix
RootOriginalsPrefixed ==
    (pc \in {"prefixed", "normalized", "done"} /\ root_prefix # None) =>
        LET files == fs
            p == root_prefix \o <<Colon>>
        IN \A i \in 1 .. nOrig :
             /\ doc[i].src = InputPath /\ ~Imported(doc[i])
             /\ (doc[i].tag \in DefTags /\ Unprefixed(SourceValue(files, doc[i], "name")))
                   => doc[i].name = p \o SourceValue(files, doc[i], "name")
             /\ \A attr \in {"ref", "type", "base", "substitutionGroup"} :
                   Unprefixed(SourceValue(files, doc[i], attr))
                      => doc[i][attr] = p \o SourceValue(files, doc[i], attr)

\* the root pass leaves every merged node as it is
RootPassOnlyOriginals ==
    (pc = "resolved" /\ pc' = "prefixed") =>
        /\ DOMAIN doc' = DOMAIN doc
        /\ \A i \in DOMAIN doc : i > nOrig => doc'[i] = doc[i]

\* C19: when the root declares a prefix for its own target namespace, after
\* the closure has completed every unprefixed top-level definition name and
\* every unprefixed ref, type, base and substitutionGroup of the root's
\* original top-level nodes carries the root prefix, and the pass changes no
\* node that an import merged.
C19_RootOriginalsPrefixed ==
    /\ []RootOriginalsPrefixed
    /\ [][RootPassOnlyOriginals]_vars

\* a prefixed root with merged imports, one of them left unprefixed, and an
\* original element whose name and substitutionGroup were prefixed
C19_RootPassAfterMerge ==
    /\ pc = "done"
    /\ root_prefix # None
    /\ \E i \in DOMAIN doc :
          /\ i > nOrig
          /\ doc[i].tag \in DefTags
          /\ Unprefixed(doc[i].name)
    /\ \E i \in 1 .. nOrig :
          /\ doc[i].tag = "element"
          /\ Unprefixed(SourceValue(fs, doc[i], "substitutionGroup"))
          /\ doc[i].substitutionGroup
                = root_prefix \o <<Colon>> \o SourceValue(fs, doc[i], "substitutionGroup")
          /\ doc[i].name = root_prefix \o <<Colon>> \o SourceValue(fs, doc[i], "name")


-----------------------------------------------------------------------------
\* Prefix derivation on its own: a resolver whose registry was seeded from
\* the root's declared prefixes derives and registers a prefix for one
\* unregistered namespace after another.

DeclaredPrefixes == {<<"a">>, <<"a", "2">>, <<"a", "3">>, <<"b">>}

\* nsmaps of a root without targetNamespace
DeriveNsmaps ==
    {<<>>}
    \cup {<<<<p, NsR>>>> : p \in DeclaredPrefixes}
    \cup {<<<<pq[1], NsR>>, <<pq[2], NsB>>>> :
             pq \in {x \in DeclaredPrefixes \X DeclaredPrefixes : x[1] # x[2]}}

\* "u/a", "v/A_1" and "w/a/" all give the candidate "a"
DeriveNamespaces ==
    {NsA, NsA1, <<"w", "/", "a", "/">>, NsB, NsE,
     <<"v", "/", "A", "b", "_", "1", "_", "2", "/">>,
     <<"u", "r", "n", ":", "a", ":", "b">>,
     <<"u", "/", "X", "s", "d", "_", "1">>}

DeriveInit ==
    /\ input = NoInput
    /\ pc = "imports"
    /\ doc = <<>>
    /\ \E nsmap \in DeriveNsmaps :
          /\ root_nsmap = nsmap
          /\ ns_to_prefix = SeedRegistry(nsmap, << >>, None, None)
    /\ root_target_ns = None
    /\ root_prefix = None
    /\ nOrig = 0
    /\ imported = {}
    /\ stack = <<>>
    /\ warnings = <<>>
    /\ output = FALSE
    /\ parses = 0
    /\ parsedPaths = <<>>
    /\ mergedPaths = <<>>
    /\ entered = <<>>
    /\ calls = 0
    /\ again = FALSE
    /\ hier = [phase |-> "off"]

\* handle_imports: "if not prefix: prefix = self._derive_prefix_from_ns(ns);
\* self.ns_to_prefix[ns] = prefix"
derive_and_register ==
    /\ \E ns \in DeriveNamespaces :
          /\ RegGet(ns_to_prefix, ns) = None
          /\ ns_to_prefix' = ChoosePrefix(ns, ns_to_prefix)[1]
    /\ UNCHANGED <<again, hier, input, pc, doc, root_nsmap, root_target_ns, root_prefix, nOrig,
                   imported, stack, warnings, output, parses, parsedPaths,
                   mergedPaths, entered, calls>>

DeriveSpec == DeriveInit /\ [][derive_and_register]_vars

\* the prefix is the candidate, or the candidate followed by the smallest
\* n >= 2 that makes it unused
SmallestUnusedSuffix(p, candidate, used) ==
    /\ p \notin used
    /\ candidate \notin used => p = candidate
    /\ candidate \in used =>
          \E n \in 2 .. (Cardinality(used) + 2) :
             /\ p = candidate \o Decimal(n)
             /\ \A m \in 2 .. (n - 1) : (candidate \o Decimal(m)) \in used

\* C20: for every registry and every namespace _derive_prefix_from_ns returns
\* the candidate when it is unused, otherwise the candidate followed by the
\* smallest integer n >= 2 for which the result is unused; the result is
\* never a prefix of the registry, and a derivation that registers a prefix
\* registers that result for the namespace and changes no other entry.
C20_SmallestUnusedSuffix ==
    /\ [](\A ns \in DeriveNamespaces :
            SmallestUnusedSuffix(_derive_prefix_from_ns(ns, ns_to_prefix),
                                 DeriveBase(ns), UsedPrefixes(ns_to_prefix)))
    /\ [][\A ns \in DeriveNamespaces :
            (RegGet(ns_to_prefix', ns) # RegGet(ns_to_prefix, ns)) =>
               /\ SmallestUnusedSuffix(ns_to_prefix'[ns], DeriveBase(ns),
                                       UsedPrefixes(ns_to_prefix))
               /\ \A x \in DOMAIN ns_to_prefix \ {ns} :
                      ns_to_prefix'[x] = ns_to_prefix[x]]_vars

\* the candidate "a" and "a2" were both taken, and the namespace got "a3"
C20_SecondSuffixTaken ==
    /\ pc = "imports" /\ input = NoInput
    /\ \E ns \in DeriveNamespaces \cap DOMAIN ns_to_prefix :
          /\ DeriveBase(ns) = <<"a">>
          /\ ns_to_prefix[ns] = <<"a", "3">>
          /\ \E x, y \in DOMAIN ns_to_prefix :
                ns_to_prefix[x] = <<"a">> /\ ns_to_prefix[y] = <<"a", "2">>


\* p is the lowercase form of the part before the first "_" of the last
\* "/"-separated segment of ns, trailing "/" ignored: ns[b..e] is that
\* segment and ns[b..u] the part
FirstPartLowered(p, ns) ==
    \E e \in 0 .. Len(ns) : \E b \in 1 .. (e + 1) : \E u \in (b - 1) .. e :
        /\ \A j \in (e + 1) .. Len(ns) : ns[j] = "/"
        /\ e = 0 \/ ns[e] # "/"
        /\ b = 1 \/ ns[b - 1] = "/"
        /\ \A j \in b .. e : ns[j] # "/"
        /\ \A j \in b .. u : ns[j] # "_"
        /\ u = e \/ ns[u + 1] = "_"
        /\ Len(p) = u - b + 1
        /\ \A i \in 1 .. Len(p) : p[i] = LowerChar(ns[b + i - 1])

\* C21: when no registry entry uses it, the prefix _derive_prefix_from_ns
\* returns for a namespace is the lowercase form of the part before the
\* first "_" of the namespace's last "/"-separated segment, trailing "/"
\* ignored; and that is the prefix a derivation then registers.
C21_FirstPartLowered ==
    /\ [](\A ns \in DeriveNamespaces :
            (\A x \in DOMAIN ns_to_prefix :
                ~FirstPartLowered(ns_to_prefix[x], ns))
               => FirstPartLowered(_derive_prefix_from_ns(ns, ns_to_prefix), ns))
    /\ [][\A ns \in DeriveNamespaces :
            (/\ RegGet(ns_to_prefix', ns) # RegGet(ns_to_prefix, ns)
             /\ \A x \in DOMAIN ns_to_prefix :
                   ~FirstPartLowered(ns_to_prefix[x], ns))
               => FirstPartLowered(ns_to_prefix'[ns], ns)]_vars

\* "v/Ab_1_2/" was registered with "ab" and "v/A_1" with "a"
C21_UpperCaseSegmentDerived ==
    /\ pc = "imports" /\ input = NoInput
    /\ RegGet(ns_to_prefix, <<"v", "/", "A", "b", "_", "1", "_", "2", "/">>) = <<"a", "b">>
    /\ RegGet(ns_to_prefix, NsA1) = <<"a">>


\* C22: once a namespace has a prefix in the registry, no later step of the
\* run changes or removes that entry.
C22_EntriesNeverChange ==
    [][\A ns \in DOMAIN ns_to_prefix :
          ns \in DOMAIN ns_to_prefix' /\ ns_to_prefix'[ns] = ns_to_prefix[ns]]_vars

\* the same for entries that are not the empty string
C22_NonEmptyEntriesNeverChange ==
    [][\A ns \in DOMAIN ns_to_prefix :
          ns_to_prefix[ns] # None =>
             ns \in DOMAIN ns_to_prefix' /\ ns_to_prefix'[ns] = ns_to_prefix[ns]]_vars


MergedSet == {mergedPaths[k] : k \in DOMAIN mergedPaths}

\* the files whose handle_imports call is still running
InProgress == {stack[k].path : k \in 2 .. Len(stack)}

\* every retained node of entry e is in the document
NodesMerged(files, e) ==
    \A n \in DOMAIN files[e.path].nodes :
        NotAnnotation(files[e.path].nodes[n])
           => \E i \in DOMAIN doc : doc[i].gen = e.gen /\ doc[i].idx = n

\* the step that rewrites and appends file F: every file F imports was
\* entered, and those entered after F are merged, their namespaces
\* registered, while no node of F is in the document yet
ImportsMergedFirst ==
    (Len(mergedPaths') > Len(mergedPaths)) =>
        LET files == fs
            F == Top.path
            f == CHOOSE k \in DOMAIN entered : entered[k].path = F
        IN /\ mergedPaths' = Append(mergedPaths, F)
           /\ \A i \in DOMAIN doc : doc[i].gen # entered[f].gen
           /\ \A n \in DOMAIN files[F].nodes :
                 NotAnnotation(files[F].nodes[n])
                    => \E i \in DOMAIN doc' :
                          doc'[i].gen = entered[f].gen /\ doc'[i].idx = n
           /\ \A d \in DOMAIN Top.dirs :
                 LET t == IncludePath(F, Top.dirs[d])
                 IN /\ t \in DOMAIN files
                    /\ \E k \in DOMAIN entered : entered[k].path = t
                    /\ \A k \in DOMAIN entered :
                          (entered[k].path = t /\ k > f) =>
                             /\ t \in MergedSet
                             /\ NodesMerged(files, entered[k])
                             /\ (entered[k].ns # None /\ entered[k].ns # root_target_ns)
                                   => entered[k].ns \in DOMAIN ns_to_prefix

\* the step that enters a file: the directives before it, in document order,
\* are done, their files merged or still running further up
DepthFirstInOrder ==
    (Len(entered') > Len(entered)) =>
        /\ entered'[Len(entered')].path = include_path
        /\ \A j \in 1 .. (Top.i - 1) :
              LET t == IncludePath(Top.path, Top.dirs[j])
              IN t \in imported /\ t \in MergedSet \cup InProgress

\* C23: for every imported file F, the files F imports that were not visited
\* before are fully merged and their namespaces registered before F's names
\* and references are rewritten and F's nodes appended; the directives of a
\* file are processed in document order, depth-first.
C23_ImportsMergedFirst ==
    /\ [][ImportsMergedFirst]_vars
    /\ [][DepthFirstInOrder]_vars

\* a file entered from an imported file was merged before that file
C23_NestedMergedBeforeParent ==
    /\ Resolved
    /\ \E i, j \in DOMAIN mergedPaths : \E k, l \in DOMAIN entered :
          /\ i < j /\ k < l
          /\ entered[k].path = mergedPaths[j]
          /\ entered[l].path = mergedPaths[i]
          /\ \E d \in DirectiveIdx(fs[mergedPaths[j]]) :
                IncludePath(mergedPaths[j], fs[mergedPaths[j]].nodes[d]) = mergedPaths[i]


\* the step that enters a file takes the directive's namespace attribute when
\* it has one, otherwise the file's targetNamespace, and chooses the prefix
\* of that namespace
EffectiveNamespaceChosen ==
    (Len(entered') > Len(entered)) =>
        LET e == entered'[Len(entered')]
            d == Top.dirs[Top.i]
        IN /\ e.path = IncludePath(Top.path, d)
           /\ e.ns = IF d.namespace # None THEN d.namespace ELSE fs[e.path].tns
           /\ e.add_prefix =
                 IF e.ns # None /\ e.ns # root_target_ns
                 THEN ns_to_prefix'[e.ns] \o <<Colon>>
                 ELSE IF e.ns # None /\ root_prefix # None
                 THEN root_prefix \o <<Colon>>
                 ELSE None

\* after resolve the unprefixed values of the given attributes of every
\* imported file carry the prefix chosen when the file was entered
ChosenPrefixApplied(attrs) ==
    Resolved =>
        LET files == fs
        IN \A i \in DOMAIN doc : \A attr \in attrs :
             (/\ Imported(doc[i])
              /\ attr = "name" => doc[i].tag \in DefTags
              /\ Unprefixed(SourceValue(files, doc[i], attr)))
                 => doc[i][attr] =
                       EnteredOf(doc[i]).add_prefix \o SourceValue(files, doc[i], attr)

\* C24: the effective namespace of a newly visited file is the namespace
\* attribute of the directive that reaches it when present and non-empty,
\* otherwise the file's targetNamespace, and the prefix chosen for that
\* namespace is the one the file's definition names and unprefixed
\* references carry.
C24_EffectiveNamespacePrefix ==
    /\ [][EffectiveNamespaceChosen]_vars
    /\ []ChosenPrefixApplied({"name", "ref", "type", "base", "substitutionGroup"})

\* the same for the namespace, the choice of the prefix and the names
C24_EffectiveNamespaceNames ==
    /\ [][EffectiveNamespaceChosen]_vars
    /\ []ChosenPrefixApplied({"name"})


\* C25: in an imported file that was given a prefix, a ref, type or base that
\* had no prefix and was prefixed by the first passes is left as it is by the
\* cross-namespace pass: after the merge it reads "<file's prefix>:<local
\* name>", whatever the file's own declarations bind that prefix to.
C25_OwnPrefixKept ==
    Resolved =>
        LET files == fs
        IN \A i \in DOMAIN doc : \A attr \in {"ref", "type", "base"} :
             (/\ Imported(doc[i])
              /\ EnteredOf(doc[i]).add_prefix # None
              /\ Unprefixed(SourceValue(files, doc[i], attr)))
                 => /\ SplitTail(doc[i][attr], Colon) = SourceValue(files, doc[i], attr)
                    /\ SplitHead(doc[i][attr], Colon) \o <<Colon>>
                          = EnteredOf(doc[i]).add_prefix

\* the same for files whose own declarations do not bind the prefix they
\* were given
C25_OwnPrefixKeptUnlessBound ==
    Resolved =>
        LET files == fs
        IN \A i \in DOMAIN doc : \A attr \in {"ref", "type", "base"} :
             (/\ Imported(doc[i])
              /\ EnteredOf(doc[i]).add_prefix # None
              /\ Unprefixed(SourceValue(files, doc[i], attr))
              /\ NsmapGet(files[doc[i].src].nsmap,
                          SplitHead(EnteredOf(doc[i]).add_prefix, Colon)) = None)
                 => doc[i][attr] =
                       EnteredOf(doc[i]).add_prefix \o SourceValue(files, doc[i], attr)


\* C26: no namespace other than the XML Schema namespace is ever registered
\* with the prefix "xsd", so that "xsd:<name>" always denotes a built-in.
C26_XsdPrefixReserved ==
    \A ns \in DOMAIN ns_to_prefix : ns # XSD => ns_to_prefix[ns] # XsdPrefix

\* C27: every prefix stored in the registry is a non-empty string without
\* ":", and every definition name the merge prefixed has exactly one ":",
\* after a non-empty prefix.
C27_PrefixesWellFormed ==
    /\ \A ns \in DOMAIN ns_to_prefix :
          ns_to_prefix[ns] # None /\ ~Contains(ns_to_prefix[ns], Colon)
    /\ \A i \in DOMAIN doc :
          (/\ Imported(doc[i])
           /\ doc[i].tag \in DefTags
           /\ Unprefixed(SourceValue(fs, doc[i], "name"))
           /\ EnteredOf(doc[i]).add_prefix # None)
              => /\ SplitHead(doc[i].name, Colon) # None
                 /\ ~Contains(SplitTail(doc[i].name, Colon), Colon)


\* no parse has failed so far
NoneMissing == \A k \in DOMAIN parsedPaths : parsedPaths[k] \in DOMAIN fs

\* a step of the second call parses nothing, merges nothing, and leaves the
\* document and the registry as they are
SecondCallIdle ==
    /\ parses' = parses
    /\ parsedPaths' = parsedPaths
    /\ mergedPaths' = mergedPaths
    /\ doc' = doc
    /\ ns_to_prefix' = ns_to_prefix
    /\ imported' = imported
    /\ pc' # "failed"

\* C28: a second handle_imports call on the same resolver and root document
\* after a completed resolution parses no file, merges nothing and leaves
\* the merged document and the registry unchanged, wherever the files are.
C28_SecondCallIdle ==
    [][(again /\ pc = "imports" /\ NoneMissing) => SecondCallIdle]_vars

\* the same when every merged file that has directives is in the root's
\* directory
C28_SecondCallIdleSameDirectory ==
    [][(/\ again /\ pc = "imports" /\ NoneMissing
        /\ \A k \in DOMAIN mergedPaths :
              DirectiveIdx(fs[mergedPaths[k]]) # {}
                 => Parent(mergedPaths[k]) = Parent(InputPath))
          => SecondCallIdle]_vars


\* the step on which the parse of a missing file raises: the document and
\* the registry stay as they are, the visited set keeps what it had and
\* holds the missing path
FailureKeepsAll ==
    (pc' = "failed" /\ pc # "failed") =>
        /\ doc' = doc
        /\ ns_to_prefix' = ns_to_prefix
        /\ mergedPaths' = mergedPaths
        /\ imported \subseteq imported'
        /\ parsedPaths'[Len(parsedPaths')] \notin DOMAIN fs
        /\ parsedPaths'[Len(parsedPaths')] \in imported'

\* no step of handle_imports takes a node out of the document or a path out
\* of the visited set, and a directive for a visited path is skipped
NothingRolledBack ==
    (pc = "imports") =>
        /\ Len(doc') >= Len(doc) /\ SubSeq(doc', 1, Len(doc)) = doc
        /\ imported \subseteq imported'
        /\ (AtDirective /\ include_path \in imported) =>
              /\ pc' = "imports"
              /\ parses' = parses
              /\ stack' = ReplaceTop([Top EXCEPT !.i = @ + 1])

\* C29: when the parse of a missing file raises nothing is rolled back: the
\* merged nodes, the registry and the renamings stay, the missing path stays
\* in the visited set, and a later handle_imports call on the same resolver
\* skips that path and never parses it again.
C29_FailureKeepsState ==
    /\ [][FailureKeepsAll]_vars
    /\ [][NothingRolledBack]_vars
    /\ [](\A j, k \in DOMAIN parsedPaths :
             (parsedPaths[j] = parsedPaths[k] /\ parsedPaths[j] \notin DOMAIN fs) => j = k)

\* a file was merged, a parse failed, and the later call went through the
\* directives and returned
C29_LaterCallReturned ==
    /\ again
    /\ pc = "resolved"
    /\ ~NoneMissing
    /\ Len(parsedPaths) = 2
    /\ mergedPaths # <<>>
    /\ \E i \in DOMAIN doc : Imported(doc[i]) /\ doc[i].tag \in DefTags


\* the canonical paths named by the directives of the file at p, in document
\* order
TargetsOf(files, p) ==
    LET dirs == xpath_directives(files[p].nodes)
    IN [j \in DOMAIN dirs |-> IncludePath(p, dirs[j])]

\* depth-first traversal from a list of targets: <<visited, completion order>>
RECURSIVE Walk(_, _, _, _)
Walk(files, targets, visited, order) ==
    IF targets = <<>> THEN <<visited, order>>
    ELSE LET t == Head(targets)
         IN IF t \in visited \/ t \notin DOMAIN files
            THEN Walk(files, Tail(targets), visited, order)
            ELSE LET sub == Walk(files, TargetsOf(files, t), visited \cup {t}, order)
                 IN Walk(files, Tail(targets), sub[1], Append(sub[2], t))

\* <<gen, idx>> of the retained nodes of an entered file, in document order
RetainedIds(files, e) ==
    LET Keep(x) == NotAnnotation(files[e.path].nodes[x[2]])
    IN SelectSeq([n \in DOMAIN files[e.path].nodes |-> <<e.gen, n>>], Keep)

\* the root's original nodes, then the retained nodes of the first k files
\* in the given order
RECURSIVE Layout(_, _, _)
Layout(files, order, k) ==
    IF k = 0 THEN [i \in 1 .. nOrig |-> <<0, i>>]
    ELSE Layout(files, order, k - 1)
         \o RetainedIds(files,
                entered[CHOOSE j \in DOMAIN entered : entered[j].path = order[k]])

\* C30: after resolve the root's top-level nodes are its original nodes in
\* their order, then the retained nodes of the imported files, each file's
\* nodes contiguous and in document order, the files in the order in which
\* the depth-first traversal of the directives completes them.
C30_DocumentLayout ==
    Resolved =>
        LET files == fs
            order == Walk(files, TargetsOf(files, InputPath), {}, <<>>)[2]
        IN /\ mergedPaths = order
           /\ [i \in DOMAIN doc |-> <<doc[i].gen, doc[i].idx>>]
                 = Layout(files, order, Len(order))

\* three files merged, the first one imported by the second
C30_ThreeFilesMerged ==
    /\ Resolved
    /\ Len(mergedPaths) = 3
    /\ Len(doc) > nOrig + 3
    /\ mergedPaths[1] \in ImportsOf(fs, mergedPaths[2])
    /\ mergedPaths[1] \notin ImportsOf(fs, InputPath)

====
